---- MODULE Spec2Model ----
(***************************************************************************)
(* A model of pascal_lib.c, the C runtime shim linked against the          *)
(* assembly a Pascal compiler generates: the entry point main, which       *)
(* forwards to asm_main, and the library the generated code calls          *)
(* (write, writeln, writef, writei, writelnf, writelni, new, iround and    *)
(* the FUNC32 single-precision variants).                                  *)
(*                                                                         *)
(* Values.  An int is a TLC integer (both are 32-bit two's complement).    *)
(* A C string is a sequence of one-character strings.  A floating-point    *)
(* value is a record [ty, cls, neg, ip, fp]: ty is "double" or "float",    *)
(* cls is "fin", "inf" or "nan", neg is the sign bit, ip the decimal       *)
(* digits of the integer part (no leading zero, <<>> for 0) and fp the     *)
(* digits of the fraction (no trailing zero).  The record stands for the   *)
(* floating-point number nearest to that decimal; digit sequences keep     *)
(* magnitudes beyond the range of int exact.                               *)
(***************************************************************************)
EXTENDS Integers, Sequences, FiniteSets, TLC

(***************************************************************************)
(* Bounds of the model.                                                    *)
(***************************************************************************)
\* The number of library calls asm_main makes in one run.
MaxCalls == 2
\* The bytes the platform allocator can still hand out when the run starts.
HeapAvail == 8

(***************************************************************************)
(* Constants of the platform the code is built for.                        *)
(***************************************************************************)
INT_MAX == 2147483647
INT_MIN == -2147483647 - 1
\* The precision printf uses for %g when the format gives none.
GPrecision == 6
\* A POSIX host reports the low 8 bits of the value main returns.
PosixStatusMod == 256

(***************************************************************************)
(* Digit sequences.                                                        *)
(***************************************************************************)
DigitChars == <<"0", "1", "2", "3", "4", "5", "6", "7", "8", "9">>

DigitChar(d) == DigitChars[d + 1]

IsDigitChar(c) == \E d \in 0..9 : DigitChars[d + 1] = c

DigitOf(c) == CHOOSE d \in 0..9 : DigitChars[d + 1] = c

RECURSIVE DigitsText(_)
DigitsText(ds) ==
  IF ds = <<>> THEN <<>> ELSE <<DigitChar(Head(ds))>> \o DigitsText(Tail(ds))

RECURSIVE StripLeadingZeros(_)
StripLeadingZeros(ds) ==
  IF ds # <<>> /\ Head(ds) = 0 THEN StripLeadingZeros(Tail(ds)) ELSE ds

RECURSIVE StripTrailingZeros(_)
StripTrailingZeros(ds) ==
  IF ds # <<>> /\ ds[Len(ds)] = 0
  THEN StripTrailingZeros(SubSeq(ds, 1, Len(ds) - 1))
  ELSE ds

RECURSIVE Zeros(_)
Zeros(n) == IF n <= 0 THEN <<>> ELSE <<0>> \o Zeros(n - 1)

\* The digit sequence ds plus one, as a digit sequence (999 + 1 = 1000).
RECURSIVE IncDigits(_)
IncDigits(ds) ==
  IF ds = <<>> THEN <<1>>
  ELSE IF ds[Len(ds)] < 9
       THEN SubSeq(ds, 1, Len(ds) - 1) \o <<ds[Len(ds)] + 1>>
       ELSE IncDigits(SubSeq(ds, 1, Len(ds) - 1)) \o <<0>>

\* The digit sequence ds minus one, for ds denoting a number >= 1.
RECURSIVE DecDigits(_)
DecDigits(ds) ==
  IF ds[Len(ds)] > 0
  THEN StripLeadingZeros(SubSeq(ds, 1, Len(ds) - 1) \o <<ds[Len(ds)] - 1>>)
  ELSE DecDigits(SubSeq(ds, 1, Len(ds) - 1)) \o <<9>>

\* a < b, a = b or a > b for digit sequences without leading zeros.
RECURSIVE LexLess(_, _)
LexLess(a, b) ==
  /\ a # <<>>
  /\ \/ Head(a) < Head(b)
     \/ Head(a) = Head(b) /\ LexLess(Tail(a), Tail(b))

DigitsLess(a, b) == Len(a) < Len(b) \/ (Len(a) = Len(b) /\ LexLess(a, b))

DigitsLeq(a, b) == a = b \/ DigitsLess(a, b)

\* The decimal digits of a natural number (<<>> for 0).
RECURSIVE NatDigits(_)
NatDigits(n) == IF n = 0 THEN <<>> ELSE NatDigits(n \div 10) \o <<n % 10>>

\* The decimal digits of the magnitude of n <= 0, computed without negating n
\* (the magnitude of INT_MIN is not an int).
RECURSIVE NegDigits(_)
NegDigits(n) ==
  IF n = 0 THEN <<>>
  ELSE LET r == (10 - (n % 10)) % 10
       IN NegDigits((n + r) \div 10) \o <<r>>

IntDigits(n) == IF n >= 0 THEN NatDigits(n) ELSE NegDigits(n)

\* The natural number a digit sequence denotes (the caller keeps it <= INT_MAX).
RECURSIVE DigitsNat(_)
DigitsNat(ds) ==
  IF ds = <<>> THEN 0
  ELSE 10 * DigitsNat(SubSeq(ds, 1, Len(ds) - 1)) + ds[Len(ds)]

\* Minus the number a digit sequence denotes (the caller keeps it >= INT_MIN).
RECURSIVE DigitsNeg(_)
DigitsNeg(ds) ==
  IF ds = <<>> THEN 0
  ELSE 10 * DigitsNeg(SubSeq(ds, 1, Len(ds) - 1)) - ds[Len(ds)]

(***************************************************************************)
(* Floating-point values.                                                  *)
(***************************************************************************)
Dbl(neg, ip, fp) ==
  [ty |-> "double", cls |-> "fin", neg |-> neg, ip |-> ip, fp |-> fp]

Flt(neg, ip, fp) ==
  [ty |-> "float", cls |-> "fin", neg |-> neg, ip |-> ip, fp |-> fp]

DblInf(neg) == [ty |-> "double", cls |-> "inf", neg |-> neg, ip |-> <<>>, fp |-> <<>>]

DblNaN == [ty |-> "double", cls |-> "nan", neg |-> FALSE, ip |-> <<>>, fp |-> <<>>]

IsZero(x) == x.cls = "fin" /\ x.ip = <<>> /\ x.fp = <<>>

\* Equality of the numbers two records stand for, whatever their types
\* (the C comparison ==: -0.0 equals 0.0, a NaN equals nothing).
SameValue(x, y) ==
  /\ x.cls # "nan" /\ y.cls # "nan"
  /\ x.cls = y.cls /\ x.ip = y.ip /\ x.fp = y.fp
  /\ (x.neg = y.neg \/ IsZero(x))

\* The C comparison x >= 0.0 (false for a NaN, true for -0.0).
GeZero(x) == x.cls # "nan" /\ (~x.neg \/ IsZero(x))

\* (double) f: the same number in the wider type.
Widen(f) == [f EXCEPT !.ty = "double"]

(***************************************************************************)
(* printf, as far as the library uses it: the conversions %s, %d and %g    *)
(* with one argument, written to the standard output stream.               *)
(***************************************************************************)
NoArg == [k |-> "none"]
StrArg(str) == [k |-> "str", v |-> str]
IntArg(n) == [k |-> "int", v |-> n]
DblArg(x) == [k |-> "dbl", v |-> x]

\* %d: a signed integer in decimal.
IntText(n) ==
  IF n = 0 THEN <<"0">>
  ELSE (IF n < 0 THEN <<"-">> ELSE <<>>) \o DigitsText(IntDigits(n))

\* The significant digits of a finite nonzero value, first digit nonzero.
SigDigits(x) == StripLeadingZeros(x.ip \o x.fp)

\* The decimal exponent of the first significant digit.
Exp10(x) ==
  IF x.ip # <<>> THEN Len(x.ip) - 1
  ELSE -(Len(x.fp) - Len(StripLeadingZeros(x.fp))) - 1

AllZero(ds) == \A i \in 1..Len(ds) : ds[i] = 0

\* Whether rounding sig to p digits rounds the magnitude up: to nearest, and
\* to the even digit when the value is exactly halfway (the values of the
\* model whose decimal is exactly halfway are integers, which are that number
\* exactly).
RoundsUp(sig, p) ==
  /\ Len(sig) > p
  /\ \/ sig[p + 1] > 5
     \/ sig[p + 1] = 5 /\ ~AllZero(SubSeq(sig, p + 2, Len(sig)))
     \/ sig[p + 1] = 5 /\ AllZero(SubSeq(sig, p + 2, Len(sig))) /\ sig[p] % 2 = 1

\* sig rounded to exactly p digits, and whether the rounding carried into a
\* new leading digit (999999|6 becomes 100000 with the exponent one larger).
RoundSig(sig, p) ==
  LET head == SubSeq(sig, 1, IF Len(sig) < p THEN Len(sig) ELSE p)
      padded == head \o Zeros(p - Len(head))
      inc == IncDigits(padded)
  IN IF RoundsUp(sig, p)
     THEN [digits |-> SubSeq(inc, 1, p), carry |-> Len(inc) > p]
     ELSE [digits |-> padded, carry |-> FALSE]

\* The exponent field of the %e style: a sign and at least two digits.
ExpText(e) ==
  LET mag == IF e < 0 THEN -e ELSE e
  IN <<"e", IF e < 0 THEN "-" ELSE "+">>
     \o (IF mag < 10 THEN <<"0">> ELSE <<>>)
     \o (IF mag = 0 THEN <<"0">> ELSE DigitsText(NatDigits(mag)))

FracText(ds) ==
  LET f == StripTrailingZeros(ds)
  IN IF f = <<>> THEN <<>> ELSE <<".">> \o DigitsText(f)

\* %g with precision p: the value rounded to p significant digits, in the %e
\* style when the exponent is below -4 or at least p and in the %f style
\* otherwise, trailing zeros (and a bare decimal point) removed.
GText(x, p) ==
  LET sgn == IF x.neg THEN <<"-">> ELSE <<>>
  IN IF x.cls = "nan" THEN sgn \o <<"n", "a", "n">>
     ELSE IF x.cls = "inf" THEN sgn \o <<"i", "n", "f">>
     ELSE IF IsZero(x) THEN sgn \o <<"0">>
     ELSE LET r == RoundSig(SigDigits(x), p)
              e == Exp10(x) + (IF r.carry THEN 1 ELSE 0)
              d == r.digits
          IN sgn \o
             (IF e < -4 \/ e >= p
              THEN <<DigitChar(d[1])>> \o FracText(SubSeq(d, 2, p)) \o ExpText(e)
              ELSE IF e >= 0
              THEN DigitsText(SubSeq(d, 1, e + 1)) \o FracText(SubSeq(d, e + 2, p))
              ELSE <<"0">> \o FracText(Zeros(-e - 1) \o d))

\* An argument that is missing or of the wrong type is undefined behaviour;
\* the library never passes one.
Garbage == <<"?">>

Conversion(c, arg) ==
  IF c = "s" /\ arg.k = "str" THEN arg.v
  ELSE IF c = "d" /\ arg.k = "int" THEN IntText(arg.v)
  ELSE IF c = "g" /\ arg.k = "dbl" THEN GText(arg.v, GPrecision)
  ELSE Garbage

\* The text printf(fmt, arg) produces.
RECURSIVE Printf(_, _)
Printf(fmt, arg) ==
  IF fmt = <<>> THEN <<>>
  ELSE IF Head(fmt) # "%" THEN <<Head(fmt)>> \o Printf(Tail(fmt), arg)
  ELSE IF Len(fmt) = 1 THEN Garbage
  ELSE IF fmt[2] = "%" THEN <<"%">> \o Printf(SubSeq(fmt, 3, Len(fmt)), arg)
  ELSE Conversion(fmt[2], arg)
       \o Printf(SubSeq(fmt, 3, Len(fmt)), NoArg)

(***************************************************************************)
(* The state of one run of the program.                                    *)
(***************************************************************************)
VARIABLES
  pc,          \* "start": main not yet entered; "asm": asm_main is running;
               \* "exited": main has returned; "aborted": the process was aborted
  asmCalls,    \* how often asm_main was invoked
  asmArgs,     \* the arguments of the last invocation of asm_main
  asmRet,      \* the value asm_main returned ("none" before it returns)
  exitArg,     \* the value main returned to the C runtime
  exitStatus,  \* the exit status the host reports for the process
  stdout,      \* the content of the standard output stream
  stderr,      \* the content of the standard error stream
  streamOk,    \* FALSE once the standard output stream has failed
  heapFree,    \* the bytes the platform allocator can still hand out
  blocks,      \* the live heap blocks, each [addr, size]
  trace        \* the library calls asm_main has made, in call order

vars == <<pc, asmCalls, asmArgs, asmRet, exitArg, exitStatus, stdout, stderr,
          streamOk, heapFree, blocks, trace>>

NULL == 0

(***************************************************************************)
(* The arguments the generated code passes.                                *)
(***************************************************************************)
Texts == {<<"a", "b", "c">>, <<"d", "e", "f">>, <<"%", "d">>}

Ints == {INT_MIN, 42}

Floats == {Flt(FALSE, <<3>>, <<2, 5>>), Flt(TRUE, <<1, 2, 3, 4, 5, 6, 7>>, <<>>)}

Doubles == {Dbl(FALSE, <<3>>, <<1, 4>>)} \cup {Widen(f) : f \in Floats}

Sizes == {-1, 0, 1, HeapAvail}

ExitCodes == {-1, 7, 256}

\* The builds the source provides for: __GNUC__ (a POSIX or MinGW host) and
\* the __cdecl branch (a Windows compiler).
Hosts == {"posix", "windows"}

Init ==
  /\ pc = "start"
  /\ asmCalls = 0
  /\ asmArgs = <<>>
  /\ asmRet = "none"
  /\ exitArg = "none"
  /\ exitStatus = "none"
  /\ stdout = <<>>
  /\ stderr = <<>>
  /\ streamOk = TRUE
  /\ heapFree = HeapAvail
  /\ blocks = {}
  /\ trace = <<>>

(***************************************************************************)
(* main: return asm_main();                                                *)
(***************************************************************************)
\* The mutant of main_return: main calls asm_main and returns 0.
main_return_zero(r) == 0

\* The value main returns, r being what asm_main returned.
main_return(r) == r

\* The status the host reports for a process whose main returned v: a POSIX
\* host keeps the low 8 bits, a Windows host the whole int.
HostStatus(host, v) == IF host = "posix" THEN v % PosixStatusMod ELSE v

\* main is entered and calls asm_main, with no arguments.
main_call ==
  /\ pc = "start"
  /\ pc' = "asm"
  /\ asmCalls' = asmCalls + 1
  /\ asmArgs' = <<>>
  /\ UNCHANGED <<asmRet, exitArg, exitStatus, stdout, stderr, streamOk,
                 heapFree, blocks, trace>>

\* asm_main returns r; main returns it, and the process exits.
asm_return(r, host) ==
  /\ pc = "asm"
  /\ pc' = "exited"
  /\ asmRet' = r
  /\ exitArg' = main_return(r)
  /\ exitStatus' = HostStatus(host, main_return(r))
  /\ UNCHANGED <<asmCalls, asmArgs, stdout, stderr, streamOk, heapFree,
                 blocks, trace>>

(***************************************************************************)
(* The formatted output wrappers.                                          *)
(***************************************************************************)
FmtS == <<"%", "s">>
FmtSLn == <<"%", "s", "\n">>
FmtG == <<"%", "g">>
FmtGLn == <<"%", "g", "\n">>
FmtD == <<"%", "d">>
FmtDLn == <<"%", "d", "\n">>

\* The mutant of write_text: the string is passed as the format.
write_text_as_format(str) == Printf(str, NoArg)

\* The text each wrapper hands to printf's stream.
write_text(str) == Printf(FmtS, StrArg(str))

\* The mutant of writeln_text: the newline is missing.
writeln_text_no_newline(str) == Printf(FmtS, StrArg(str))

writeln_text(str) == Printf(FmtSLn, StrArg(str))

\* The mutant of writef_text: the value is followed by a newline.
writef_text_ln(x) == Printf(FmtGLn, DblArg(x))

writef_text(x) == Printf(FmtG, DblArg(x))

writei_text(n) == Printf(FmtD, IntArg(n))

writelnf_text(x) == Printf(FmtGLn, DblArg(x))

writelni_text(n) == Printf(FmtDLn, IntArg(n))

\* What printf returns: the number of characters written, or a negative
\* value when the stream has failed.
PrintfResult(text) == IF streamOk THEN Len(text) ELSE -1

\* The mutant of AfterPrintf: the wrapper checks printf's result and aborts.
AfterPrintf_checked(res) == IF res < 0 THEN "abort" ELSE "return"

\* Each wrapper is the expression statement printf(...); the value of printf
\* is discarded and the wrapper returns.
AfterPrintf(res) == "return"

\* One call op(arg) of an output wrapper that hands text to printf.  inner is
\* the wrapper the call forwards to and its argument (<<>> when it calls printf
\* itself).
Output(op, arg, text, inner) ==
  /\ pc = "asm"
  /\ Len(trace) < MaxCalls
  /\ LET res == PrintfResult(text)
         after == AfterPrintf(res)
     IN /\ stdout' = IF streamOk THEN stdout \o text ELSE stdout
        /\ stderr' = IF after = "abort" THEN stderr \o <<"!">> ELSE stderr
        /\ pc' = IF after = "abort" THEN "aborted" ELSE pc
        /\ trace' = Append(trace, [op |-> op, arg |-> arg, emitted |-> text,
                                   delivered |-> streamOk,
                                   appended |-> IF streamOk THEN text ELSE <<>>,
                                   printfCalls |-> 1,
                                   printfRet |-> res, ret |-> "void",
                                   inner |-> inner])
  /\ UNCHANGED <<asmCalls, asmArgs, asmRet, exitArg, exitStatus, streamOk,
                 heapFree, blocks>>

write(str) == Output("write", str, write_text(str), <<>>)

writeln(str) == Output("writeln", str, writeln_text(str), <<>>)

writef(x) == Output("writef", x, writef_text(x), <<>>)

writei(n) == Output("writei", n, writei_text(n), <<>>)

writelnf(x) == Output("writelnf", x, writelnf_text(x), <<>>)

writelni(n) == Output("writelni", n, writelni_text(n), <<>>)

\* The environment: the standard output stream fails (it is closed, or its
\* reader goes away) and every later printf returns a negative value.
stream_fails ==
  /\ pc \in {"start", "asm"}
  /\ streamOk
  /\ streamOk' = FALSE
  /\ UNCHANGED <<pc, asmCalls, asmArgs, asmRet, exitArg, exitStatus, stdout,
                 stderr, heapFree, blocks, trace>>

(***************************************************************************)
(* FUNC32(a): a##32(float f) { return a((double) f); }                     *)
(* The two output instances, void FUNC32(writef) and void FUNC32(writelnf).*)
(***************************************************************************)
\* The mutant of FUNC32_writef: writef32 forwards to the line-terminated wrapper.
FUNC32_writef_ln(f) == [callee |-> "writelnf", arg |-> Widen(f),
                        text |-> writelnf_text(Widen(f))]

\* The call writef32 makes: writef((double) f).
FUNC32_writef(f) == [callee |-> "writef", arg |-> Widen(f),
                     text |-> writef_text(Widen(f))]

\* The call writelnf32 makes: writelnf((double) f).
FUNC32_writelnf(f) == [callee |-> "writelnf", arg |-> Widen(f),
                       text |-> writelnf_text(Widen(f))]

writef32(f) ==
  LET c == FUNC32_writef(f)
  IN Output("writef32", f, c.text, <<[op |-> c.callee, arg |-> c.arg]>>)

writelnf32(f) ==
  LET c == FUNC32_writelnf(f)
  IN Output("writelnf32", f, c.text, <<[op |-> c.callee, arg |-> c.arg]>>)

(***************************************************************************)
(* new returns what malloc(size) returns, cast to a pointer to int.        *)
(***************************************************************************)
\* Whether the allocator can satisfy a request of size bytes.  malloc takes a
\* size_t: a negative int converts to a value above every amount of memory
\* the allocator has.
MallocFits(size) == size >= 0 /\ size <= heapFree

\* The addresses malloc may return for a request of size bytes: a fresh block
\* when the request fits, NULL when it does not, and either for a request of
\* 0 bytes.
MallocResults(size) ==
  (IF MallocFits(size) THEN {Cardinality(blocks) + 1} ELSE {})
    \cup (IF ~MallocFits(size) \/ size = 0 THEN {NULL} ELSE {})

\* The mutant of new_request: the size is taken as a count of ints.
new_request_ints(size) == IF size > INT_MAX \div 4 THEN -1 ELSE size * 4

\* The size new passes to malloc.
new_request(size) == size

\* new returns malloc's result as it is, unchecked.
new_result(p) == "return"

new(size) ==
  /\ pc = "asm"
  /\ Len(trace) < MaxCalls
  /\ \E p \in MallocResults(new_request(size)) :
       /\ blocks' = IF p = NULL THEN blocks
                    ELSE blocks \cup {[addr |-> p, size |-> new_request(size)]}
       /\ heapFree' = IF p = NULL THEN heapFree
                      ELSE heapFree - new_request(size)
       /\ pc' = IF new_result(p) = "abort" THEN "aborted" ELSE pc
       /\ trace' = Append(trace, [op |-> "new", arg |-> size, ret |-> p,
                                  avail |-> heapFree])
  /\ UNCHANGED <<asmCalls, asmArgs, asmRet, exitArg, exitStatus, stdout,
                 stderr, streamOk>>

(***************************************************************************)
(* A run: main calls asm_main, which calls the output wrappers and new in  *)
(* any order and returns.                                                  *)
(***************************************************************************)
Next ==
  \/ main_call
  \/ \E r \in ExitCodes, host \in Hosts : asm_return(r, host)
  \/ \E str \in Texts : write(str)
  \/ \E str \in Texts : writeln(str)
  \/ \E x \in Doubles : writef(x)
  \/ \E n \in Ints : writei(n)
  \/ \E x \in Doubles : writelnf(x)
  \/ \E n \in Ints : writelni(n)
  \/ \E f \in Floats : writef32(f)
  \/ \E f \in Floats : writelnf32(f)
  \/ \E size \in Sizes : new(size)
  \/ stream_fails

Spec == Init /\ [][Next]_vars

(***************************************************************************)
(* Properties of a run (specification Spec).                               *)
(***************************************************************************)
OutputOps == {"write", "writeln", "writef", "writei", "writelnf", "writelni",
              "writef32", "writelnf32"}

IsOutput(i) == trace[i].op \in OutputOps

\* What the output calls 1..n of the trace appended to the stream,
\* concatenated in call order.
RECURSIVE DeliveredText(_)
DeliveredText(n) ==
  IF n = 0 THEN <<>>
  ELSE DeliveredText(n - 1)
       \o (IF IsOutput(n) THEN trace[n].appended ELSE <<>>)

\* The texts of all output calls 1..n of the trace, concatenated in call order.
RECURSIVE EmittedText(_)
EmittedText(n) ==
  IF n = 0 THEN <<>>
  ELSE EmittedText(n - 1) \o (IF IsOutput(n) THEN trace[n].emitted ELSE <<>>)

NewCalls == {i \in 1..Len(trace) : trace[i].op = "new"}

\* C1, as stated: main invokes asm_main exactly once and with no arguments,
\* all output and every allocation of the run is one asm_main asked for, and
\* the exit status of the process equals the value r asm_main returned, for
\* every r.
C1_ExitStatusIsReturnValue ==
  /\ pc # "start" => asmCalls = 1 /\ asmArgs = <<>>
  /\ pc = "exited" =>
       /\ exitStatus = asmRet
       /\ stdout = DeliveredText(Len(trace))
       /\ Cardinality(blocks) = Cardinality({i \in NewCalls : trace[i].ret # NULL})

\* C1, amended: main invokes asm_main exactly once and with no arguments,
\* produces no output and allocates nothing itself, and returns the value r
\* asm_main returned; the exit status the host reports equals r when
\* 0 <= r <= 255 and is otherwise r or, on a POSIX host, r mod 256.
C1_MainReturnsAsmMainResult ==
  /\ pc = "start" => asmCalls = 0 /\ stdout = <<>> /\ blocks = {}
  /\ pc # "start" => asmCalls = 1 /\ asmArgs = <<>>
  /\ stdout = DeliveredText(Len(trace))
  /\ Cardinality(blocks) = Cardinality({i \in NewCalls : trace[i].ret # NULL})
  /\ pc = "exited" =>
       /\ exitArg = asmRet
       /\ asmRet \in 0..255 => exitStatus = asmRet
       /\ exitStatus \in {asmRet, asmRet % PosixStatusMod}

\* asm_main returned 7 after making library calls and the process exited
\* with status 7.
C1_Witness ==
  /\ pc = "exited" /\ asmRet = 7 /\ exitStatus = 7
  /\ asmCalls = 1 /\ Len(trace) = MaxCalls

\* C3, as stated: after any sequence of calls of the output wrappers the
\* content of the standard output stream is the concatenation, in call
\* order, of what each call emits, and write emits its text verbatim.
C3_StdoutIsConcatenation ==
  /\ stdout = EmittedText(Len(trace))
  /\ \A i \in 1..Len(trace) :
       trace[i].op = "write" => trace[i].emitted = trace[i].arg

\* C3, amended: write emits its text verbatim, and the content of the
\* standard output stream is the concatenation, in call order, of what the
\* calls made before the stream failed emit; while the stream has not failed
\* that is every call.
C3_StdoutIsConcatenationUntilFailure ==
  /\ stdout = DeliveredText(Len(trace))
  /\ streamOk => stdout = EmittedText(Len(trace))
  /\ \A i \in 1..Len(trace) :
       /\ trace[i].op = "write" => trace[i].emitted = trace[i].arg
       /\ IsOutput(i) =>
            trace[i].appended = IF trace[i].delivered THEN trace[i].emitted ELSE <<>>
       /\ IsOutput(i) /\ trace[i].delivered =>
            \A j \in 1..i : IsOutput(j) => trace[j].delivered

\* write("abc") then write("def") left "abcdef" on a working stream.
C3_Witness ==
  /\ streamOk
  /\ Len(trace) = 2
  /\ trace[1].op = "write" /\ trace[1].arg = <<"a", "b", "c">>
  /\ trace[2].op = "write" /\ trace[2].arg = <<"d", "e", "f">>
  /\ stdout = <<"a", "b", "c", "d", "e", "f">>

\* The characters a separator could be.
Separators == {"\n", " ", "\t", ","}

EndsWithSeparator(text) == text # <<>> /\ text[Len(text)] \in Separators

\* C4: a call of writeln, writelni or writelnf emits what a call of write,
\* writei or writef with the same argument emits, followed by exactly one
\* newline; write, writei and writef add no trailing separator.
C4_LineWrappersAddOneNewline ==
  \A i \in 1..Len(trace) :
    /\ trace[i].op = "write" => trace[i].emitted = trace[i].arg
    /\ trace[i].op \in {"writei", "writef"} => ~EndsWithSeparator(trace[i].emitted)
    /\ \A j \in 1..Len(trace) :
         /\ \/ trace[i].op = "writeln" /\ trace[j].op = "write"
            \/ trace[i].op = "writelni" /\ trace[j].op = "writei"
            \/ trace[i].op = "writelnf" /\ trace[j].op = "writef"
         /\ trace[i].arg = trace[j].arg
         => trace[i].emitted = trace[j].emitted \o <<"\n">>

\* A run that called writeln and write with the same text.
C4_Witness ==
  /\ Len(trace) = 2
  /\ trace[1].op = "writeln" /\ trace[2].op = "write"
  /\ trace[1].arg = trace[2].arg
  /\ trace[1].emitted = <<"%", "d", "\n">>

\* C6: every call new(size) returns NULL or the address of a live block of
\* at least size bytes that no other call returned; for size >= 1 it returns
\* a block when the allocator has that much memory and NULL when it has not;
\* new never aborts and never releases a block.
C6_NewReturnsBlockOrNull ==
  /\ pc # "aborted"
  /\ \A i \in NewCalls :
       LET r == trace[i]
       IN /\ \/ r.ret = NULL
             \/ \E b \in blocks : b.addr = r.ret /\ b.size >= r.arg
          /\ r.arg >= 1 /\ r.arg <= r.avail => r.ret # NULL
          /\ r.arg > r.avail => r.ret = NULL
          /\ \A j \in NewCalls : j # i /\ r.ret # NULL => trace[j].ret # r.ret

\* A run in which new returned a block and then, the memory used up, NULL.
C6_Witness ==
  /\ Len(trace) = 2
  /\ trace[1].op = "new" /\ trace[1].arg = HeapAvail /\ trace[1].ret # NULL
  /\ trace[2].op = "new" /\ trace[2].arg = 1 /\ trace[2].ret = NULL
  /\ pc = "asm"

\* C8: writef32(f) and writelnf32(f) make exactly one call, of writef and of
\* writelnf with f widened to double, return no value, and have the effect on
\* the standard output stream that a call of that wrapper with that argument
\* has.
C8_Write32Forwards ==
  \A i \in 1..Len(trace) :
    LET r == trace[i]
        callee == IF r.op = "writef32" THEN "writef" ELSE "writelnf"
    IN r.op \in {"writef32", "writelnf32"} =>
         /\ r.inner = <<[op |-> callee, arg |-> Widen(r.arg)]>>
         /\ r.ret = "void"
         /\ r.printfCalls = 1
         /\ \A j \in 1..Len(trace) :
              trace[j].op = callee /\ trace[j].arg = Widen(r.arg) =>
                /\ trace[j].emitted = r.emitted
                /\ trace[j].delivered = r.delivered =>
                     trace[j].appended = r.appended

\* A run that called writef32(f) and writef((double) f).
C8_Witness ==
  /\ Len(trace) = 2
  /\ trace[1].op = "writef32" /\ trace[2].op = "writef"
  /\ trace[2].arg = Widen(trace[1].arg)
  /\ stdout = <<"3", ".", "2", "5", "3", ".", "2", "5">>

\* C9: a call of an output wrapper on a failed stream returns normally and
\* without a value, after one attempt to write; nothing is reported and the
\* process is not aborted.
C9_StreamFailureNotSurfaced ==
  /\ pc # "aborted"
  /\ stderr = <<>>
  /\ \A i \in 1..Len(trace) :
       IsOutput(i) /\ ~trace[i].delivered =>
         /\ trace[i].printfRet < 0
         /\ trace[i].printfCalls = 1
         /\ trace[i].ret = "void"
         /\ pc \in {"asm", "exited"}

\* A run whose stream failed, after which write was called and then another
\* operation of the library.
C9_Witness ==
  /\ Len(trace) = 2
  /\ trace[1].op = "write" /\ ~trace[1].delivered
  /\ trace[2].op = "writei" /\ ~trace[2].delivered
  /\ stdout = <<>>
  /\ pc = "asm"

(***************************************************************************)
(* iround: n = x + 0.5 when x >= 0.0, n = x - 0.5 otherwise, n being an    *)
(* int.                                                                    *)
(***************************************************************************)
Neg(x) == [x EXCEPT !.neg = ~x.neg]

FirstFrac(x) == IF x.fp = <<>> THEN 0 ELSE x.fp[1]

RestFrac(x) == IF x.fp = <<>> THEN <<>> ELSE Tail(x.fp)

\* |x| + 0.5 for a finite x, with the sign given.
MagPlusHalf(x, neg) ==
  IF FirstFrac(x) < 5
  THEN [x EXCEPT !.neg = neg, !.fp = <<FirstFrac(x) + 5>> \o RestFrac(x)]
  ELSE [x EXCEPT !.neg = neg, !.ip = IncDigits(x.ip),
                 !.fp = StripTrailingZeros(<<FirstFrac(x) - 5>> \o RestFrac(x))]

\* |x| - 0.5 for a finite x with |x| >= 0.5, with the sign given.
MagMinusHalf(x, neg) ==
  IF FirstFrac(x) >= 5
  THEN [x EXCEPT !.neg = neg,
                 !.fp = StripTrailingZeros(<<FirstFrac(x) - 5>> \o RestFrac(x))]
  ELSE [x EXCEPT !.neg = neg, !.ip = DecDigits(x.ip),
                 !.fp = <<FirstFrac(x) + 5>> \o RestFrac(x)]

\* 0.5 - |x| for a finite x with |x| < 0.5, with the sign given.
HalfMinusMag(x, neg) ==
  LET k == Len(x.fp)
      diff == NatDigits(DigitsNat(<<5>> \o Zeros(k - 1)) - DigitsNat(x.fp))
  IN [x EXCEPT !.neg = neg,
               !.fp = StripTrailingZeros(Zeros(k - Len(diff)) \o diff)]

\* The double sums x + 0.5 and x - 0.5 (exact for the values of the model).
AddHalf(x) ==
  IF x.cls # "fin" THEN x
  ELSE IF ~x.neg THEN MagPlusHalf(x, FALSE)
  ELSE IF x.ip # <<>> \/ FirstFrac(x) >= 5 THEN MagMinusHalf(x, TRUE)
  ELSE HalfMinusMag(x, FALSE)

SubHalf(x) == Neg(AddHalf(Neg(x)))

\* Whether the integer part of d is an int.
InIntRange(d) ==
  /\ d.cls = "fin"
  /\ DigitsLeq(d.ip, IF d.neg THEN IntDigits(INT_MIN) ELSE IntDigits(INT_MAX))

\* The values the build can produce for a conversion to int whose result is
\* not an int, which is undefined: the x86 conversions give INT_MIN, a
\* saturating conversion INT_MIN, INT_MAX or (for a NaN) 0.
ConvUB == {INT_MIN, INT_MAX, 0}

\* The mutant of ToInt: the conversion rounds toward minus infinity.
ToIntFloor(d) ==
  IF InIntRange(d)
  THEN {IF d.neg
        THEN (IF d.fp = <<>> \/ d.ip = IntDigits(INT_MIN)
              THEN DigitsNeg(d.ip) ELSE DigitsNeg(d.ip) - 1)
        ELSE DigitsNat(d.ip)}
  ELSE ConvUB

\* The conversion of a double to int, as in the assignment n = d: the
\* fraction is discarded (truncation toward zero).
ToInt(d) ==
  IF InIntRange(d)
  THEN {IF d.neg THEN DigitsNeg(d.ip) ELSE DigitsNat(d.ip)}
  ELSE ConvUB

\* The mutant of iround_results: 0.5 is added whatever the sign.
iround_always_adds(x) == ToInt(AddHalf(x))

\* The values iround(x) can return.
iround_results(x) == IF GeZero(x) THEN ToInt(AddHalf(x)) ELSE ToInt(SubHalf(x))

iround(x) ==
  /\ pc = "asm"
  /\ Len(trace) < MaxCalls
  /\ \E n \in iround_results(x) :
       trace' = Append(trace, [op |-> "iround", arg |-> x, ret |-> n])
  /\ UNCHANGED <<pc, asmCalls, asmArgs, asmRet, exitArg, exitStatus, stdout,
                 stderr, streamOk, heapFree, blocks>>

\* The arguments the generated code passes to iround: values around zero,
\* ties, and values around the bounds of int.
RoundMagnitudes ==
  {Dbl(FALSE, <<>>, <<>>), Dbl(FALSE, <<>>, <<2, 5>>), Dbl(FALSE, <<>>, <<5>>),
   Dbl(FALSE, <<2>>, <<4>>), Dbl(FALSE, <<2>>, <<5>>), Dbl(FALSE, <<9>>, <<7, 5>>),
   Dbl(FALSE, IntDigits(INT_MAX), <<>>), Dbl(FALSE, IntDigits(INT_MAX), <<2, 5>>),
   Dbl(FALSE, IntDigits(INT_MAX), <<5>>), Dbl(FALSE, IntDigits(INT_MIN), <<>>),
   Dbl(FALSE, IntDigits(INT_MIN), <<2, 5>>), Dbl(FALSE, IntDigits(INT_MIN), <<5>>),
   Dbl(FALSE, <<3, 0, 0, 0, 0, 0, 0, 0, 0, 0>>, <<>>), DblInf(FALSE), DblNaN}

RoundInputs == RoundMagnitudes \cup {Neg(x) : x \in RoundMagnitudes}

RoundExitCodes == {0}

NextRound ==
  \/ main_call
  \/ \E x \in RoundInputs : iround(x)
  \/ \E r \in RoundExitCodes, host \in Hosts : asm_return(r, host)

\* A run in which asm_main calls iround.
SpecRound == Init /\ [][NextRound]_vars

(***************************************************************************)
(* Properties of iround (specification SpecRound).                         *)
(***************************************************************************)
RoundCalls == {i \in 1..Len(trace) : trace[i].op = "iround"}

\* The int n as a double.
IntAsDbl(n) == Dbl(n < 0, IntDigits(n), <<>>)

\* floor and ceil of a double, as mathematics defines them.
FloorOf(d) ==
  IF d.cls # "fin" \/ d.fp = <<>> THEN d
  ELSE IF d.neg THEN [d EXCEPT !.ip = IncDigits(d.ip), !.fp = <<>>]
  ELSE [d EXCEPT !.fp = <<>>]

CeilOf(d) == Neg(FloorOf(Neg(d)))

\* a < b for fractions given as digit sequences.
RECURSIVE FracLess(_, _)
FracLess(a, b) ==
  /\ b # <<>>
  /\ \/ a = <<>> /\ ~AllZero(b)
     \/ a # <<>> /\ Head(a) < Head(b)
     \/ a # <<>> /\ Head(a) = Head(b) /\ FracLess(Tail(a), Tail(b))

\* |x| < |y| for finite values.
MagLess(x, y) ==
  \/ DigitsLess(x.ip, y.ip)
  \/ x.ip = y.ip /\ FracLess(x.fp, y.fp)

\* -2147483648.5 < x < 2147483647.5: the finite x whose rounded value is an int.
RoundsToInt(x) ==
  /\ x.cls = "fin"
  /\ MagLess(x, IF x.neg /\ ~IsZero(x)
                THEN Dbl(TRUE, IntDigits(INT_MIN), <<5>>)
                ELSE Dbl(FALSE, IntDigits(INT_MAX), <<5>>))

\* |x| < 2147483647.5: the finite x for which x and -x both round to an int.
RoundsToIntBothSigns(x) ==
  x.cls = "fin" /\ MagLess(x, Dbl(FALSE, IntDigits(INT_MAX), <<5>>))

\* A tie goes away from zero: for x = k + 0.5 with an integer k >= 0, and for
\* its negation, the magnitude of n is k + 1 and n has the sign of x.
TieGoesAway(x, n) ==
  x.cls = "fin" /\ x.fp = <<5>> =>
    IntDigits(n) = IncDigits(x.ip) /\ (n < 0) = x.neg

\* The cases the specification lists: iround(2.5) = 3, iround(-2.5) = -3,
\* iround(2.4) = 2, iround(0.0) = 0 and iround(-0.5) = -1.
ListedRoundCase(x, n) ==
  /\ x = Dbl(FALSE, <<2>>, <<5>>) => n = 3
  /\ x = Dbl(TRUE, <<2>>, <<5>>) => n = -3
  /\ x = Dbl(FALSE, <<2>>, <<4>>) => n = 2
  /\ x = Dbl(FALSE, <<>>, <<>>) => n = 0
  /\ x = Dbl(TRUE, <<>>, <<5>>) => n = -1

\* iround(x) = floor(x + 0.5) for x >= 0 and ceil(x - 0.5) for x < 0.
IsFloorOrCeil(x, n) ==
  IF GeZero(x) THEN SameValue(IntAsDbl(n), FloorOf(AddHalf(x)))
  ELSE SameValue(IntAsDbl(n), CeilOf(SubHalf(x)))

\* C2, as stated, for the finite inputs: for every x, iround(x) is
\* floor(x + 0.5) when x is non-negative and ceil(x - 0.5) when x is
\* negative, a tie going away from zero, and the listed cases hold.
C2_RoundsHalfAwayForAllInputs ==
  \A i \in RoundCalls :
    trace[i].arg.cls = "fin" =>
      /\ IsFloorOrCeil(trace[i].arg, trace[i].ret)
      /\ TieGoesAway(trace[i].arg, trace[i].ret)
      /\ ListedRoundCase(trace[i].arg, trace[i].ret)

\* C2, amended: for every finite x with -2147483648.5 < x < 2147483647.5,
\* iround(x) is floor(x + 0.5) when x is non-negative and ceil(x - 0.5) when
\* x is negative (the sum being the double the code computes), a tie going
\* away from zero, and the listed cases hold; for every other x the
\* conversion to int is undefined and the result is not that value.
C2_RoundsHalfAwayWithinInt ==
  \A i \in RoundCalls :
    LET x == trace[i].arg
        n == trace[i].ret
    IN /\ RoundsToInt(x) => IsFloorOrCeil(x, n) /\ TieGoesAway(x, n)
       /\ ~RoundsToInt(x) => ~IsFloorOrCeil(x, n)
       /\ ListedRoundCase(x, n)

\* A run that rounded the ties 2.5 and -2.5.
C2_Witness ==
  /\ Len(trace) = 2
  /\ trace[1].op = "iround" /\ trace[1].arg = Dbl(FALSE, <<2>>, <<5>>)
  /\ trace[1].ret = 3
  /\ trace[2].op = "iround" /\ trace[2].arg = Dbl(TRUE, <<2>>, <<5>>)
  /\ trace[2].ret = -3

\* m = -n for ints (there is no int -n for n = INT_MIN).
IsNegationOf(m, n) == n # INT_MIN /\ m = -n

\* C10, as stated, for the finite inputs: for every x, iround(-x) = -iround(x),
\* also at the bounds of int.
C10_OddSymmetricEverywhere ==
  \A i, j \in RoundCalls :
    trace[i].arg.cls = "fin" /\ trace[j].arg = Neg(trace[i].arg)
      => IsNegationOf(trace[j].ret, trace[i].ret)

\* C10, amended: for every finite x with |x| < 2147483647.5,
\* iround(-x) = -iround(x), and iround(0) = 0 for either zero.
C10_OddSymmetricWithinInt ==
  \A i, j \in RoundCalls :
    /\ trace[j].arg = Neg(trace[i].arg) /\ RoundsToIntBothSigns(trace[i].arg)
         => IsNegationOf(trace[j].ret, trace[i].ret)
    /\ IsZero(trace[i].arg) => trace[i].ret = 0

\* A run that rounded 9.75 and -9.75.
C10_Witness ==
  /\ Len(trace) = 2
  /\ trace[1].op = "iround" /\ trace[1].arg = Dbl(FALSE, <<9>>, <<7, 5>>)
  /\ trace[2].op = "iround" /\ trace[2].arg = Dbl(TRUE, <<9>>, <<7, 5>>)
  /\ trace[1].ret = 10 /\ trace[2].ret = -10

(***************************************************************************)
(* writef over a wider range of values (specification SpecFmt).            *)
(***************************************************************************)
\* The arguments the generated code passes to writef.
FmtMagnitudes ==
  {Dbl(FALSE, <<>>, <<>>), Dbl(FALSE, <<3>>, <<1, 4>>), Dbl(FALSE, <<>>, <<5>>),
   Dbl(FALSE, <<4, 2>>, <<>>), Dbl(FALSE, <<1, 0, 0, 0, 0, 0>>, <<>>),
   Dbl(FALSE, <<1, 0, 0, 0, 0, 0, 0>>, <<>>),
   Dbl(FALSE, <<1, 2, 3, 4, 5, 6>>, <<>>), Dbl(FALSE, <<1, 2, 3, 4, 5, 6, 7>>, <<>>),
   Dbl(FALSE, <<1, 2, 3, 4, 5, 6, 5>>, <<>>), Dbl(FALSE, <<1, 2, 3, 4, 5, 7, 5>>, <<>>),
   Dbl(FALSE, <<3>>, <<1, 4, 1, 5, 9, 2, 6, 5>>),
   Dbl(FALSE, <<9, 9, 9, 9, 9, 9>>, <<5>>), Dbl(FALSE, <<1, 2, 3, 4>>, <<5, 6, 7>>),
   Dbl(FALSE, <<>>, <<0, 0, 0, 1>>), Dbl(FALSE, <<>>, <<0, 0, 0, 0, 1>>),
   Dbl(FALSE, <<>>, <<0, 0, 0, 1, 2, 3, 4, 5, 6>>),
   Dbl(FALSE, <<>>, <<0, 0, 0, 1, 2, 3, 4, 5, 6, 7>>),
   Dbl(FALSE, <<>>, <<0, 0, 0, 0, 0, 1, 2, 5>>),
   Dbl(FALSE, <<1>> \o Zeros(10), <<>>), Dbl(FALSE, <<1, 2>> \o Zeros(20), <<>>),
   DblInf(FALSE)}

FmtInputs == FmtMagnitudes \cup {Neg(x) : x \in FmtMagnitudes} \cup {DblNaN}

FmtExitCodes == {0}

NextFmt ==
  \/ main_call
  \/ \E x \in FmtInputs : writef(x)
  \/ \E r \in FmtExitCodes, host \in Hosts : asm_return(r, host)

\* A run in which asm_main calls writef.
SpecFmt == Init /\ [][NextFmt]_vars

\* The first position of character c in text, 0 when there is none.
IndexOf(text, c) ==
  IF \E i \in 1..Len(text) : text[i] = c
  THEN CHOOSE i \in 1..Len(text) : text[i] = c /\ \A j \in 1..(i - 1) : text[j] # c
  ELSE 0

RECURSIVE TextDigits(_)
TextDigits(text) ==
  IF text = <<>> THEN <<>> ELSE <<DigitOf(Head(text))>> \o TextDigits(Tail(text))

\* The parts of a decimal floating-point literal [-]int[.frac][e(+|-)exp].
Literal(text) ==
  LET neg == text # <<>> /\ Head(text) = "-"
      body == IF neg THEN Tail(text) ELSE text
      e == IndexOf(body, "e")
      mant == IF e = 0 THEN body ELSE SubSeq(body, 1, e - 1)
      dot == IndexOf(mant, ".")
      expMag == IF e = 0 THEN 0 ELSE DigitsNat(TextDigits(SubSeq(body, e + 2, Len(body))))
  IN [neg |-> neg,
      hasDot |-> dot # 0,
      int |-> TextDigits(IF dot = 0 THEN mant ELSE SubSeq(mant, 1, dot - 1)),
      frac |-> IF dot = 0 THEN <<>> ELSE TextDigits(SubSeq(mant, dot + 1, Len(mant))),
      exp |-> IF e # 0 /\ body[e + 1] = "-" THEN -expMag ELSE expMag]

\* The double a text reads back as (what strtod returns for it).
ReadBack(text) ==
  IF text \in {<<"n", "a", "n">>, <<"-", "n", "a", "n">>} THEN DblNaN
  ELSE IF text = <<"i", "n", "f">> THEN DblInf(FALSE)
  ELSE IF text = <<"-", "i", "n", "f">> THEN DblInf(TRUE)
  ELSE LET l == Literal(text)
           all == l.int \o l.frac
           point == Len(l.int) + l.exp
       IN Dbl(l.neg,
              StripLeadingZeros(IF point <= 0 THEN <<>>
                                ELSE IF point >= Len(all)
                                THEN all \o Zeros(point - Len(all))
                                ELSE SubSeq(all, 1, point)),
              StripTrailingZeros(IF point <= 0 THEN Zeros(-point) \o all
                                 ELSE IF point >= Len(all) THEN <<>>
                                 ELSE SubSeq(all, point + 1, Len(all))))

\* The number of significant decimal digits of a finite value.
SigCount(x) == Len(StripTrailingZeros(SigDigits(x)))

\* The text of a finite value has no zero padding its fraction and no bare
\* decimal point.
NoPaddingZeros(text) ==
  LET l == Literal(text)
  IN /\ l.hasDot => l.frac # <<>>
     /\ l.frac # <<>> => l.frac[Len(l.frac)] # 0

WritefCalls == {i \in 1..Len(trace) : trace[i].op = "writef"}

\* C5, as stated, for the finite values: the text writef(x) emits reads back
\* as exactly x, has no padding zeros and ends without a separator.
C5_WritefRoundTrips ==
  \A i \in WritefCalls :
    trace[i].arg.cls = "fin" =>
      /\ SameValue(ReadBack(trace[i].emitted), trace[i].arg)
      /\ NoPaddingZeros(trace[i].emitted)
      /\ ~EndsWithSeparator(trace[i].emitted)

\* C5, amended: writef(x) emits x in printf's %g format: rounded to at most 6
\* significant digits, without padding zeros and without a trailing
\* separator.  The text reads back as exactly x when x has at most 6
\* significant decimal digits (writef(3.14) emits "3.14") and as another
\* value when x has more (writef(1234567.0) emits "1.23457e+06").
C5_WritefIsSixDigitGeneralFormat ==
  \A i \in WritefCalls :
    LET x == trace[i].arg
        text == trace[i].emitted
    IN /\ ~EndsWithSeparator(text)
       /\ x.cls = "inf" => SameValue(ReadBack(text), x)
       /\ x.cls = "fin" =>
            /\ NoPaddingZeros(text)
            /\ SigCount(ReadBack(text)) <= GPrecision
            /\ SigCount(x) <= GPrecision <=> SameValue(ReadBack(text), x)
       /\ x = Dbl(FALSE, <<3>>, <<1, 4>>) => text = <<"3", ".", "1", "4">>

\* A run that wrote 3.14, which reads back, and 1234567, which does not.
C5_Witness ==
  /\ Len(trace) = 2
  /\ trace[1].op = "writef" /\ trace[1].arg = Dbl(FALSE, <<3>>, <<1, 4>>)
  /\ stdout = <<"3", ".", "1", "4", "1", ".", "2", "3", "4", "5", "7", "e", "+", "0", "6">>
  /\ ~SameValue(ReadBack(trace[2].emitted), trace[2].arg)

(***************************************************************************)
(* The math instances of FUNC32: float FUNC32(sin), FUNC32(cos),           *)
(* FUNC32(sqrt), FUNC32(exp), FUNC32(round) and FUNC32(iround).  Each      *)
(* widens its argument, calls the double function and converts the result  *)
(* to float as it returns it.                                              *)
(*                                                                         *)
(* The conversions are modelled for the values whose fraction is a         *)
(* multiple of 1/4 and whose magnitude is below 2^29, and for the ints.    *)
(***************************************************************************)
\* The significand of a float has 24 bits.
FLT_MANT_DIG == 24

RECURSIVE Pow2(_)
Pow2(k) == IF k = 0 THEN 1 ELSE 2 * Pow2(k - 1)

\* The number of bits of a natural number.
RECURSIVE BitLength(_)
BitLength(n) == IF n = 0 THEN 0 ELSE 1 + BitLength(n \div 2)

\* The natural number n < 2^31 rounded to bits significant bits, to nearest
\* and to even in a tie, as [q, shift] standing for q * 2^shift.
RoundToBits(n, bits) ==
  LET shift == IF BitLength(n) > bits THEN BitLength(n) - bits ELSE 0
      q == n \div Pow2(shift)
      rem == n % Pow2(shift)
      half == IF shift = 0 THEN 1 ELSE Pow2(shift - 1)
      up == shift > 0 /\ (rem > half \/ (rem = half /\ q % 2 = 1))
  IN [q |-> IF up THEN q + 1 ELSE q, shift |-> shift]

\* The digits of ds times two.
RECURSIVE TwiceDigits(_)
TwiceDigits(ds) ==
  IF ds = <<>> THEN <<>>
  ELSE LET last == ds[Len(ds)]
           rest == SubSeq(ds, 1, Len(ds) - 1)
           high == TwiceDigits(rest)
       IN IF 2 * last < 10 THEN high \o <<2 * last>>
          ELSE (IF high = <<>> THEN <<1>> ELSE IncDigits(high)) \o <<2 * last - 10>>

\* The digits of q * 2^shift.
RECURSIVE ShiftDigits(_, _)
ShiftDigits(ds, shift) ==
  IF shift = 0 THEN ds ELSE ShiftDigits(TwiceDigits(ds), shift - 1)

\* The fraction digits of a number of quarters.
QuarterDigits == <<<<>>, <<2, 5>>, <<5>>, <<7, 5>>>>

Quarters(fp) == CHOOSE k \in 0..3 : QuarterDigits[k + 1] = fp

\* (float) d: the float nearest to the double d, the one with the even
\* significand when two are equally near.
Narrow(d) ==
  IF d.cls # "fin" THEN [d EXCEPT !.ty = "float"]
  ELSE IF d.fp = <<>>
  THEN LET r == RoundToBits(DigitsNat(d.ip), FLT_MANT_DIG)
       IN Flt(d.neg, ShiftDigits(NatDigits(r.q), r.shift), <<>>)
  ELSE LET r == RoundToBits(4 * DigitsNat(d.ip) + Quarters(d.fp), FLT_MANT_DIG)
           v == r.q * Pow2(r.shift)
       IN Flt(d.neg, NatDigits(v \div 4), QuarterDigits[(v % 4) + 1])

\* (float) n for an int n.
IntToFloat(n) ==
  LET r == RoundToBits(IF n = INT_MIN THEN INT_MAX ELSE IF n < 0 THEN -n ELSE n,
                       FLT_MANT_DIG)
  IN IF n = INT_MIN THEN Flt(TRUE, IntDigits(INT_MIN), <<>>)
     ELSE Flt(n < 0, ShiftDigits(NatDigits(r.q), r.shift), <<>>)

\* round(d): the nearest integer, a tie going away from zero, as a double.
RoundD(d) ==
  IF d.cls # "fin" THEN d
  ELSE IF FirstFrac(d) >= 5 THEN [d EXCEPT !.ip = IncDigits(d.ip), !.fp = <<>>]
  ELSE [d EXCEPT !.fp = <<>>]

\* The doubles a function of the math library returns where the model does
\* not compute it: any of these, some of which are not floats.
LibmValues ==
  {Dbl(FALSE, <<>>, <<7, 5>>), Dbl(FALSE, <<1, 6, 7, 7, 7, 2, 1, 7>>, <<>>),
   Dbl(TRUE, <<3, 3, 5, 5, 4, 4, 3, 5>>, <<>>)}

\* The largest m with m * m <= n.
RECURSIVE ISqrt(_)
ISqrt(n) ==
  IF n < 2 THEN n
  ELSE LET s == 2 * ISqrt(n \div 4)
       IN IF s + 1 > n \div (s + 1) THEN s ELSE s + 1

\* The square root of d >= 0 where it is a number of halves: m / 2 with
\* m * m = 4 * d.
ExactRoots(d) ==
  LET n == 4 * DigitsNat(d.ip) + Quarters(d.fp)
      m == ISqrt(n)
  IN IF m * m = n
     THEN {Dbl(FALSE, NatDigits(m \div 2), QuarterDigits[2 * (m % 2) + 1])}
     ELSE {}

\* The doubles the double function named a can return for the argument d.
LibmResults(a, d) ==
  IF a = "round" THEN {RoundD(d)}
  ELSE IF a = "sqrt" /\ d.neg /\ ~IsZero(d) THEN {DblNaN}
  ELSE IF a = "sqrt" /\ ExactRoots(d) # {} THEN ExactRoots(d)
  ELSE IF a = "sin" /\ IsZero(d) THEN {d}
  ELSE IF a \in {"cos", "exp"} /\ IsZero(d) THEN {Dbl(FALSE, <<1>>, <<>>)}
  ELSE LibmValues

\* The mutant of FUNC32_callee: the single-precision function of the math
\* library is called.
FUNC32_callee_float(a) == IF a = "sin" THEN "sinf" ELSE a

\* The function a##32 calls: a.
FUNC32_callee(a) == a

\* a##32(f) for a math function a: return a((double) f), the return type
\* being float.
FUNC32_math(a, f) ==
  /\ pc = "asm"
  /\ Len(trace) < MaxCalls
  /\ \E r \in LibmResults(a, Widen(f)) :
       trace' = Append(trace,
                  [op |-> a \o "32", arg |-> f,
                   inner |-> <<[op |-> FUNC32_callee(a), arg |-> Widen(f), ret |-> r]>>,
                   ret |-> Narrow(r)])
  /\ UNCHANGED <<pc, asmCalls, asmArgs, asmRet, exitArg, exitStatus, stdout,
                 stderr, streamOk, heapFree, blocks>>

sin32(f) == FUNC32_math("sin", f)

cos32(f) == FUNC32_math("cos", f)

sqrt32(f) == FUNC32_math("sqrt", f)

exp32(f) == FUNC32_math("exp", f)

round32(f) == FUNC32_math("round", f)

\* float iround32(float f) { return iround((double) f); }
iround32(f) ==
  /\ pc = "asm"
  /\ Len(trace) < MaxCalls
  /\ \E n \in iround_results(Widen(f)) :
       trace' = Append(trace,
                  [op |-> "iround32", arg |-> f,
                   inner |-> <<[op |-> "iround", arg |-> Widen(f), ret |-> n]>>,
                   ret |-> IntToFloat(n)])
  /\ UNCHANGED <<pc, asmCalls, asmArgs, asmRet, exitArg, exitStatus, stdout,
                 stderr, streamOk, heapFree, blocks>>

\* The floats the generated code passes.
MathInputs ==
  {Flt(FALSE, <<>>, <<>>), Flt(FALSE, <<2>>, <<5>>), Flt(FALSE, <<6>>, <<2, 5>>),
   Flt(TRUE, <<8, 3, 8, 8, 6, 0, 7>>, <<5>>)}

MathExitCodes == {0}

NextF32 ==
  \/ main_call
  \/ \E f \in MathInputs : sin32(f)
  \/ \E f \in MathInputs : cos32(f)
  \/ \E f \in MathInputs : sqrt32(f)
  \/ \E f \in MathInputs : exp32(f)
  \/ \E f \in MathInputs : round32(f)
  \/ \E f \in MathInputs : iround32(f)
  \/ \E r \in MathExitCodes, host \in Hosts : asm_return(r, host)

\* A run in which asm_main calls the single-precision math functions.
SpecF32 == Init /\ [][NextF32]_vars

(***************************************************************************)
(* Properties of the single-precision math functions (specification        *)
(* SpecF32).                                                               *)
(***************************************************************************)
MathOps32 == {"sin32", "cos32", "sqrt32", "exp32", "round32"}

\* The double function each single-precision function is generated from.
DoubleFunction(op) ==
  CASE op = "sin32" -> "sin"
    [] op = "cos32" -> "cos"
    [] op = "sqrt32" -> "sqrt"
    [] op = "exp32" -> "exp"
    [] op = "round32" -> "round"

\* g is a float: converting it to float changes nothing.
IsFloat(g) == g.ty = "float" /\ [Narrow(Widen(g)) EXCEPT !.neg = g.neg] = g

\* C7: for every float f and each of sin32, cos32, sqrt32, exp32 and
\* round32, the result is the result of the double function, called once
\* with f widened to double, narrowed to float; no single-precision
\* algorithm is used.
C7_Math32IsNarrowedDouble ==
  \A i \in 1..Len(trace) :
    LET r == trace[i]
    IN r.op \in MathOps32 =>
         /\ Len(r.inner) = 1
         /\ r.inner[1].op = DoubleFunction(r.op)
         /\ r.inner[1].arg = Widen(r.arg)
         /\ r.inner[1].arg.ty = "double" /\ SameValue(r.inner[1].arg, r.arg)
         /\ r.ret = Narrow(r.inner[1].ret)
         /\ IsFloat(r.ret)
         /\ r.op = "round32" => r.ret = Narrow(RoundD(Widen(r.arg)))
         /\ r.inner[1].ret = Dbl(FALSE, <<1, 6, 7, 7, 7, 2, 1, 7>>, <<>>) =>
              r.ret = Flt(FALSE, <<1, 6, 7, 7, 7, 2, 1, 6>>, <<>>)
         /\ r.inner[1].ret = Dbl(TRUE, <<3, 3, 5, 5, 4, 4, 3, 5>>, <<>>) =>
              r.ret = Flt(TRUE, <<3, 3, 5, 5, 4, 4, 3, 6>>, <<>>)

\* A run in which exp32 narrowed a double that is no float, 16777217, to
\* the float 16777216, and round32 rounded 2.5 to 3.
C7_Witness ==
  /\ Len(trace) = 2
  /\ trace[1].op = "exp32"
  /\ trace[1].inner[1].ret = Dbl(FALSE, <<1, 6, 7, 7, 7, 2, 1, 7>>, <<>>)
  /\ trace[1].ret = Flt(FALSE, <<1, 6, 7, 7, 7, 2, 1, 6>>, <<>>)
  /\ trace[2].op = "round32" /\ trace[2].arg = Flt(FALSE, <<2>>, <<5>>)
  /\ trace[2].ret = Flt(FALSE, <<3>>, <<>>)

====
